---- MODULE Spec2Model ----
(***************************************************************************)
(* Model of advanced_cobol_processor (src/src/custom_logic.py).            *)
(*                                                                         *)
(* Text is a sequence of one-character strings.  A Python value is a       *)
(* record [t, s, n, b] tagged with its type name t; a dict is a sequence   *)
(* of [k, v] items in insertion order.  Decimal values are held in cents   *)
(* (two fractional digits).                                                *)
(***************************************************************************)
EXTENDS Integers, Sequences, FiniteSets, TLC

\* Largest number of lines of the data file.
MaxLines == 3

-----------------------------------------------------------------------------
(* Text helpers: str.strip / str.rstrip / str.upper / str(int)             *)

Whitespace == {" ", "\t", "\n"}

RECURSIVE rstrip(_)
rstrip(s) ==
    IF s # <<>> /\ s[Len(s)] \in Whitespace
    THEN rstrip(SubSeq(s, 1, Len(s) - 1))
    ELSE s

RECURSIVE lstrip(_)
lstrip(s) ==
    IF s # <<>> /\ Head(s) \in Whitespace THEN lstrip(Tail(s)) ELSE s

strip(s) == lstrip(rstrip(s))

LowerToUpper ==
    ("a" :> "A") @@ ("b" :> "B") @@ ("e" :> "E") @@ ("n" :> "N") @@ ("o" :> "O")

upper(s) ==
    [i \in DOMAIN s |-> IF s[i] \in DOMAIN LowerToUpper THEN LowerToUpper[s[i]] ELSE s[i]]

DigitChar == <<"0", "1", "2", "3", "4", "5", "6", "7", "8", "9">>

RECURSIVE NatStr(_)
NatStr(n) ==
    IF n < 10 THEN <<DigitChar[n + 1]>>
    ELSE NatStr(n \div 10) \o <<DigitChar[(n % 10) + 1]>>

IntStr(i) == IF i < 0 THEN <<"-">> \o NatStr(-i) ELSE NatStr(i)

\* str(Decimal) of a value with two fractional digits, given in cents.
DecimalStr(c) ==
    LET a == IF c < 0 THEN -c ELSE c
    IN  (IF c < 0 THEN <<"-">> ELSE <<>>) \o NatStr(a \div 100) \o <<".">>
        \o <<DigitChar[((a % 100) \div 10) + 1], DigitChar[(a % 10) + 1]>>

-----------------------------------------------------------------------------
(* Python values and dicts                                                 *)

None == [t |-> "NoneType", s |-> <<>>, n |-> 0, b |-> FALSE]
Str(s) == [t |-> "str", s |-> s, n |-> 0, b |-> FALSE]
PyInt(i) == [t |-> "int", s |-> <<>>, n |-> i, b |-> FALSE]
Decimal(c) == [t |-> "Decimal", s |-> <<>>, n |-> c, b |-> FALSE]
Bool(b) == [t |-> "bool", s |-> <<>>, n |-> 0, b |-> b]

\* str(v), as used by f-strings and by str(...).upper()
str(v) ==
    CASE v.t = "str" -> v.s
      [] v.t = "NoneType" -> <<"N", "o", "n", "e">>
      [] v.t = "int" -> IntStr(v.n)
      [] v.t = "Decimal" -> DecimalStr(v.n)
      [] v.t = "bool" -> IF v.b THEN <<"T", "r", "u", "e">>
                                ELSE <<"F", "a", "l", "s", "e">>

Item(k, v) == [k |-> k, v |-> v]

contains(d, k) == \E i \in DOMAIN d : d[i].k = k

\* d.get(k): the value, or None when the key is absent
get(d, k) ==
    IF contains(d, k) THEN d[CHOOSE i \in DOMAIN d : d[i].k = k].v ELSE None

\* d[k] = v: an existing key keeps its position, a new key goes last
setitem(d, k, v) ==
    IF contains(d, k)
    THEN [i \in DOMAIN d |-> IF d[i].k = k THEN Item(k, v) ELSE d[i]]
    ELSE Append(d, Item(k, v))

-----------------------------------------------------------------------------
(* The inputs: layouts, data lines and the line decoder                    *)

\* Layout files the loader can return (json.load of layout_path):
\*   customer      customer_id, status_code, customer_name, account_balance
\*   ids_only      customer_id only (no status_code, no account_balance)
\*   flagged       is_active, status_code, customer_name (no account_balance)
\*   text_balance  status_code, account_balance decoded as text
\*   broken        a field entry lacks a key the decoder needs
Layouts == {"customer", "ids_only", "flagged", "text_balance", "broken"}

\* Lines of the data file; only the last line of a file may lack its newline.
BlankNewline == <<"\n">>
BlankSpaces == <<" ", "\t", "\n">>
LineAnn == <<"1", "A", "a", "n", "n", "\n">>
LineBo == <<"2", "N", "b", "o", " ", " ", "\n">>
LineBadStatus == <<"3", "X", "b", "o", " ", "\n">>
LineBadDigits == <<"4", "?">>
LineShort == <<"5", "!", "\n">>

SampleLines ==
    {BlankNewline, BlankSpaces, LineAnn, LineBo, LineBadStatus, LineBadDigits,
     LineShort}

DataFiles ==
    {f \in UNION {[1..n -> SampleLines] : n \in 0..MaxLines} :
        \A i \in 1..(Len(f) - 1) : f[i][Len(f[i])] = "\n"}

\* Balance column of the samples, in cents.
BalanceOf(line) ==
    CASE line[1] = "1" -> 12345
      [] line[1] = "2" -> -60000
      [] OTHER -> -50000

\* Outcome of a call: exc is "none" or the class of the exception raised,
\* msg is str(e), rec is the record returned (or held when the call raised).
Returned(rec) == [exc |-> "none", msg |-> <<>>, rec |-> rec]
Raised(exc, msg) == [exc |-> exc, msg |-> msg, rec |-> <<>>]

\* parse_cobol_line(line, layout_config, line_count): the decoded record, or
\* the exception the decoder raises.  The decoder is imported, not defined
\* in custom_logic.py; its outcomes are enumerated per layout and line.
parse_cobol_line(line, layout_config, n) ==
    LET id == PyInt(IF line[1] = "1" THEN 1 ELSE IF line[1] = "2" THEN 2 ELSE 3)
        status == Str(<<line[2]>>)
        name == Str(strip(SubSeq(line, 3, Len(line))))
    IN  CASE layout_config = "broken" -> Raised("KeyError", <<"'length'">>)
          [] line[1] = "4" ->
                Raised("CobolParsingError",
                       <<"Line ">> \o NatStr(n) \o <<": invalid numeric">>)
          [] line[1] = "5" -> Raised("IndexError", <<"string index out of range">>)
          [] layout_config = "customer" ->
                Returned(<<Item("customer_id", id), Item("status_code", status),
                           Item("customer_name", name),
                           Item("account_balance", Decimal(BalanceOf(line)))>>)
          [] layout_config = "ids_only" -> Returned(<<Item("customer_id", id)>>)
          [] layout_config = "flagged" ->
                Returned(<<Item("is_active", Str(<<"Y">>)),
                           Item("status_code", status),
                           Item("customer_name", name)>>)
          [] layout_config = "text_balance" ->
                Returned(<<Item("status_code", status),
                           Item("account_balance", Str(IntStr(BalanceOf(line))))>>)

-----------------------------------------------------------------------------
(* The rule step, lines 58-78                                              *)

valid_statuses == <<Str(<<"A">>), Str(<<"N">>), Str(<<"R">>)>>

\* x in list
In(x, list) == \E i \in DOMAIN list : list[i] = x

\* Decimal("-500.00"), in cents
BalanceThreshold == -50000

\* Mutant: a record without a status_code passes the check.
StatusRejectsPresentOnly(rec) ==
    contains(rec, "status_code") /\ ~In(get(rec, "status_code"), valid_statuses)

\* Example 1: the status code is not one of valid_statuses
StatusRejects(rec) == ~In(get(rec, "status_code"), valid_statuses)

StatusMessage(rec) ==
    <<"Invalid status code '">> \o str(get(rec, "status_code")) \o <<"'">>

\* Example 2: customer_name to upper case, when the record has one
UpperName(rec) ==
    IF contains(rec, "customer_name")
    THEN setitem(rec, "customer_name", Str(upper(str(get(rec, "customer_name")))))
    ELSE rec

\* Example 3: the derived field
DeriveActive(rec) ==
    setitem(rec, "is_active", Bool(get(rec, "status_code") = Str(<<"A">>)))

\* Example 4: balance < Decimal("-500.00") needs a number on the left
Numeric == {"Decimal", "int", "bool"}

Cents(v) ==
    CASE v.t = "Decimal" -> v.n
      [] v.t = "int" -> v.n * 100
      [] v.t = "bool" -> IF v.b THEN 100 ELSE 0

\* Mutant: a balance below the threshold raises instead of warning.
BalanceRaisesBelowThreshold(rec) ==
    LET balance == get(rec, "account_balance")
    IN  balance # None
        /\ (balance.t \notin Numeric \/ Cents(balance) < BalanceThreshold)

BalanceRaises(rec) ==
    LET balance == get(rec, "account_balance")
    IN  balance # None /\ balance.t \notin Numeric

BalanceWarns(rec) ==
    LET balance == get(rec, "account_balance")
    IN  balance # None /\ balance.t \in Numeric /\ Cents(balance) < BalanceThreshold

\* The four rules in the order of the code.  warned: logging.warning was
\* called; rec: parsed_record as the rules left it.
ApplyRules(rec) ==
    IF StatusRejects(rec)
    THEN [exc |-> "ValueError", msg |-> StatusMessage(rec), rec |-> rec,
          warned |-> FALSE]
    ELSE LET derived == DeriveActive(UpperName(rec))
         IN  IF BalanceRaises(derived)
             THEN [exc |-> "TypeError",
                   msg |-> <<"'<' not supported between instances of 'str' and 'decimal.Decimal'">>,
                   rec |-> derived, warned |-> FALSE]
             ELSE [exc |-> "none", msg |-> <<>>, rec |-> derived,
                   warned |-> BalanceWarns(derived)]

-----------------------------------------------------------------------------
(* The per-line handlers, lines 80-97, and the results                     *)

\* Exception classes of the model; all derive from Exception, and
\* CobolParsingError derives from ValueError (line 14).
ExceptionClasses ==
    {"CobolParsingError", "ValueError", "KeyError", "TypeError", "IndexError"}

\* Mutant: no except Exception clause in the loop.
PerLineHandlerSpecificOnly(exc) ==
    IF exc \in {"CobolParsingError", "ValueError", "KeyError"} THEN "specific"
    ELSE "outer"

\* Which except clause takes an exception raised in the per-line try block:
\* line 80, line 89, or none of them (it reaches the outer try).
PerLineHandler(exc) ==
    IF exc \in {"CobolParsingError", "ValueError", "KeyError"} THEN "specific"
    ELSE IF exc \in ExceptionClasses THEN "unexpected"
    ELSE "outer"

\* error_msg of lines 82 and 91
ErrorMessage(handler, n, msg) ==
    <<"Line ">> \o NatStr(n)
    \o (IF handler = "specific" THEN <<": Error processing record - ">>
                                ELSE <<": Unexpected error - ">>)
    \o msg

\* Mutant: the entry numbers lines from 0.
ErrorEntryZeroBased(n, error_msg, line) ==
    [type |-> "dict", line_number |-> n - 1, error |-> error_msg,
     raw_line |-> rstrip(line)]

\* An element of an error list is a dict (lines 84-88, 93-97) or a plain
\* string (lines 43, 102, 105, 118).  type tells which; a string has only
\* its text, held in error.
ErrorEntry(n, error_msg, line) ==
    [type |-> "dict", line_number |-> n, error |-> error_msg,
     raw_line |-> rstrip(line)]

StrEntry(text) ==
    [type |-> "str", line_number |-> 0, error |-> text, raw_line |-> <<>>]

\* Mutant: only the bare newline counts as blank.
IsBlankNewlineOnly(line) == line = <<"\n">>

\* not line.strip(), line 51
IsBlank(line) == strip(line) = <<>>

\* The returned pair.  records_is_None: the first element is None.
NotReturned ==
    [returned |-> FALSE, records_is_None |-> FALSE, records |-> <<>>,
     errors |-> <<>>]

\* Mutant: a fatal error returns an empty list of records instead of None.
FatalReturnEmptyList(text) ==
    [returned |-> TRUE, records_is_None |-> FALSE, records |-> <<>>,
     errors |-> <<StrEntry(text)>>]

\* return None, [text]: lines 43, 102, 105
FatalReturn(text) ==
    [returned |-> TRUE, records_is_None |-> TRUE, records |-> <<>>,
     errors |-> <<StrEntry(text)>>]

\* return processed_records, processing_errors: line 121
NormalReturn(records, errors) ==
    [returned |-> TRUE, records_is_None |-> FALSE, records |-> records,
     errors |-> errors]

\* Mutant: the output error replaces the list instead of joining it.
OutputErrorOnly(errors, e) == <<StrEntry(<<"JSON Output Error: ">> \o e)>>

\* processing_errors.append(f"JSON Output Error: {e}"): line 118
AppendOutputError(errors, e) ==
    Append(errors, StrEntry(<<"JSON Output Error: ">> \o e))

\* if output_json_path: None and the empty string are falsy
OutputPaths == {"None", "", "advanced_output.json"}
Truthy(path) == path \notin {"None", ""}

-----------------------------------------------------------------------------
(* State                                                                   *)

VARIABLES
    pc,                 \* position in advanced_cobol_processor; return_<line>
                        \* once it has returned at that line
    data_lines,         \* the lines of the file at cobol_data_path
    output_json_path,   \* the argument
    layout_config,      \* line 39
    f_data,             \* lines the iterator of line 49 has consumed
    line_count,         \* line 34
    parsed_record,      \* the local of line 56 (<<>> while unbound)
    processed_records,  \* line 32
    processing_errors,  \* line 33
    result,             \* what the call returned
    record_lines,       \* line_count at each append of line 78
    parse_calls,        \* line_count passed to each call of line 56
    warnings,           \* line_count of each logging.warning of line 74
    output_file         \* "absent", or "written" by lines 112-114

vars ==
    <<pc, data_lines, output_json_path, layout_config, f_data, line_count, parsed_record,
      processed_records, processing_errors, result, record_lines, parse_calls,
      warnings, output_file>>

inputs == <<data_lines, output_json_path>>
locals == <<f_data, line_count, parsed_record, processed_records, processing_errors>>
observed == <<record_lines, parse_calls, warnings>>

Init ==
    /\ pc = "load_layout"
    /\ data_lines \in DataFiles
    /\ output_json_path \in OutputPaths
    /\ layout_config = "unset"
    /\ f_data = 0
    /\ line_count = 0
    /\ parsed_record = <<>>
    /\ processed_records = <<>>
    /\ processing_errors = <<>>
    /\ result = NotReturned
    /\ record_lines = <<>>
    /\ parse_calls = <<>>
    /\ warnings = <<>>
    /\ output_file = "absent"

\* Lines 37-40: the layout loads.
LoadLayoutOk ==
    /\ pc = "load_layout"
    /\ \E l \in Layouts : layout_config' = l
    /\ pc' = "open_data"
    /\ UNCHANGED <<inputs, locals, observed, result, output_file>>

\* Lines 41-43: opening or parsing the layout file raises.
LoadLayoutFail ==
    /\ pc = "load_layout"
    /\ result' = FatalReturn(<<"Layout Load Error: ", "e">>)
    /\ pc' = "return_43"
    /\ UNCHANGED <<inputs, locals, observed, layout_config, output_file>>

\* Lines 47-48: the data file opens.
OpenDataOk ==
    /\ pc = "open_data"
    /\ pc' = "loop"
    /\ UNCHANGED <<inputs, locals, observed, layout_config, result, output_file>>

\* Lines 100-102: the data file does not exist.
OpenDataNotFound ==
    /\ pc = "open_data"
    /\ result' = FatalReturn(<<"Data File Not Found: ", "cobol_data_path">>)
    /\ pc' = "return_102"
    /\ UNCHANGED <<inputs, locals, observed, layout_config, output_file>>

\* Lines 103-105: open raises anything else (permission, ...).
OpenDataFail ==
    /\ pc = "open_data"
    /\ result' = FatalReturn(<<"File Processing Error: ", "e">>)
    /\ pc' = "return_105"
    /\ UNCHANGED <<inputs, locals, observed, layout_config, output_file>>

\* Lines 49-97: one iteration of the loop over the next line of the file.
Iteration ==
    /\ pc = "loop"
    /\ f_data < Len(data_lines)
    /\ LET line == data_lines[f_data + 1]
           n == line_count + 1
       IN  /\ f_data' = f_data + 1
           /\ line_count' = n
           /\ IF IsBlank(line)
              THEN /\ pc' = "loop"
                   /\ UNCHANGED <<parsed_record, processed_records,
                                  processing_errors, result, observed>>
              ELSE LET parsed == parse_cobol_line(line, layout_config, n)
                       done == IF parsed.exc # "none"
                               THEN [exc |-> parsed.exc, msg |-> parsed.msg,
                                     rec |-> parsed_record, warned |-> FALSE]
                               ELSE ApplyRules(parsed.rec)
                       handler == PerLineHandler(done.exc)
                   IN  /\ parse_calls' = Append(parse_calls, n)
                       /\ parsed_record' = done.rec
                       /\ warnings' = IF done.warned THEN Append(warnings, n)
                                                     ELSE warnings
                       /\ IF done.exc = "none"
                          THEN /\ processed_records' =
                                      Append(processed_records, done.rec)
                               /\ record_lines' = Append(record_lines, n)
                               /\ pc' = "loop"
                               /\ UNCHANGED <<processing_errors, result>>
                          ELSE IF handler \in {"specific", "unexpected"}
                          THEN /\ processing_errors' =
                                      Append(processing_errors,
                                             ErrorEntry(n, ErrorMessage(handler, n, done.msg),
                                                        line))
                               /\ pc' = "loop"
                               /\ UNCHANGED <<processed_records, record_lines, result>>
                          ELSE /\ result' = FatalReturn(<<"File Processing Error: ">>
                                                        \o done.msg)
                               /\ pc' = "return_105"
                               /\ UNCHANGED <<processed_records, record_lines,
                                              processing_errors>>
    /\ UNCHANGED <<inputs, layout_config, output_file>>

\* Lines 49, 103-105: reading the next line raises (undecodable bytes, I/O).
ReadFail ==
    /\ pc = "loop"
    /\ f_data < Len(data_lines)
    /\ result' = FatalReturn(<<"File Processing Error: ", "e">>)
    /\ pc' = "return_105"
    /\ UNCHANGED <<inputs, locals, observed, layout_config, output_file>>

\* Lines 49, 107: the file is exhausted.
EndOfData ==
    /\ pc = "loop"
    /\ f_data = Len(data_lines)
    /\ pc' = "output"
    /\ UNCHANGED <<inputs, locals, observed, layout_config, result, output_file>>

\* Lines 110, 121: no output path.
NoOutput ==
    /\ pc = "output"
    /\ ~Truthy(output_json_path)
    /\ result' = NormalReturn(processed_records, processing_errors)
    /\ pc' = "return_121"
    /\ UNCHANGED <<inputs, locals, observed, layout_config, output_file>>

\* Lines 110-115, 121: the records are written.
WriteOutputOk ==
    /\ pc = "output"
    /\ Truthy(output_json_path)
    /\ output_file' = "written"
    /\ result' = NormalReturn(processed_records, processing_errors)
    /\ pc' = "return_121"
    /\ UNCHANGED <<inputs, locals, observed, layout_config>>

\* Lines 110-121: opening or writing the output raises.
WriteOutputFail ==
    /\ pc = "output"
    /\ Truthy(output_json_path)
    /\ processing_errors' = AppendOutputError(processing_errors, <<"e">>)
    /\ result' = NormalReturn(processed_records, processing_errors')
    /\ pc' = "return_121"
    /\ UNCHANGED <<inputs, f_data, line_count, parsed_record, processed_records,
                   observed, layout_config, output_file>>

Next ==
    \/ LoadLayoutOk
    \/ LoadLayoutFail
    \/ OpenDataOk
    \/ OpenDataNotFound
    \/ OpenDataFail
    \/ Iteration
    \/ ReadFail
    \/ EndOfData
    \/ NoOutput
    \/ WriteOutputOk
    \/ WriteOutputFail

Spec == Init /\ [][Next]_vars

-----------------------------------------------------------------------------
(* Vocabulary of the properties                                            *)

Returns == {"return_43", "return_102", "return_105", "return_121"}

\* The line is empty after whitespace trimming.
Blank(line) == \A i \in DOMAIN line : line[i] \in Whitespace

BlankCount(k) == Cardinality({i \in 1..k : Blank(data_lines[i])})

Range(seq) == {seq[i] : i \in DOMAIN seq}

\* The line numbers carried by the per-line entries of an error list.
ErrorLines(errors) ==
    {errors[j].line_number : j \in {i \in DOMAIN errors : errors[i].type = "dict"}}

EntriesAt(errors, i) ==
    {j \in DOMAIN errors : errors[j].type = "dict" /\ errors[j].line_number = i}

StrictlyIncreasing(seq) ==
    \A i, j \in DOMAIN seq : i < j => seq[i] < seq[j]

\* The line numbers of the per-line entries, in list order.
RECURSIVE LineNumbers(_)
LineNumbers(errors) ==
    IF errors = <<>> THEN <<>>
    ELSE IF Head(errors).type = "dict"
         THEN <<Head(errors).line_number>> \o LineNumbers(Tail(errors))
         ELSE LineNumbers(Tail(errors))

\* What the decoder makes of line i of the file.
Decoded(i) == parse_cobol_line(data_lines[i], layout_config, i)

AllowedStatus == {Str(<<"A">>), Str(<<"N">>), Str(<<"R">>)}

\* Line i decodes, and its status_code is missing or not allowed.
BadStatus(i) ==
    /\ ~Blank(data_lines[i])
    /\ Decoded(i).exc = "none"
    /\ get(Decoded(i).rec, "status_code") \notin AllowedStatus

\* What the decode step or the rule step raises for line i ("none": nothing).
Failure(i) ==
    IF Decoded(i).exc # "none" THEN Decoded(i).exc
    ELSE ApplyRules(Decoded(i).rec).exc

Fails(i) == ~Blank(data_lines[i]) /\ Failure(i) # "none"

\* The step reads one line of the file.
ReadsLine == pc = "loop" /\ f_data' = f_data + 1

\* The text without its trailing newline.
StripNewline(line) ==
    IF line # <<>> /\ line[Len(line)] = "\n"
    THEN SubSeq(line, 1, Len(line) - 1)
    ELSE line

-----------------------------------------------------------------------------
(* C1 *)

\* C1: in every run that returns its records, len(records) + len(errors)
\* equals the number of lines of the data source minus the blank ones.
C1_CountBalance ==
    pc = "return_121" =>
        Len(result.records) + Len(result.errors)
            = Len(data_lines) - BlankCount(Len(data_lines))

\* The balance of C1 as the loop keeps it: after every iteration, records
\* plus per-line entries equal the lines read minus the blank ones.
LoopCountBalance ==
    Len(processed_records) + Cardinality(ErrorLines(processing_errors))
        = f_data - BlankCount(f_data)

-----------------------------------------------------------------------------
(* C2 *)

\* A failing line read by this step becomes one more entry of the error
\* list, carrying the line's number, and the loop goes on.
CapturesFailure ==
    (ReadsLine /\ Fails(f_data')) =>
        /\ pc' = "loop"
        /\ processed_records' = processed_records
        /\ Len(processing_errors') = Len(processing_errors) + 1
        /\ SubSeq(processing_errors', 1, Len(processing_errors)) = processing_errors
        /\ processing_errors'[Len(processing_errors')].type = "dict"
        /\ processing_errors'[Len(processing_errors')].line_number = f_data'

\* The outcome of every line read so far is the one its own content gives,
\* whatever the lines before it did.
OwnOutcome ==
    \A i \in 1..f_data :
        /\ Cardinality(EntriesAt(processing_errors, i)) = IF Fails(i) THEN 1 ELSE 0
        /\ i \in Range(record_lines) <=> (~Fails(i) /\ ~Blank(data_lines[i]))

\* C2: whatever the decode step or the rule step raises for a non-blank
\* line is captured as one entry of the error list and the loop goes on to
\* the next line; no line's failure ends the batch or changes the outcome
\* of a later line.
C2_PerLineIsolation == [][CapturesFailure]_vars /\ []OwnOutcome

\* A line failed in the unexpected handler, and a later line became a record.
C2_Witness ==
    \E i, j \in 1..f_data :
        /\ i < j
        /\ Fails(i)
        /\ Failure(i) \in {"IndexError", "TypeError"}
        /\ j \in Range(record_lines)
        /\ EntriesAt(processing_errors, i) # {}

-----------------------------------------------------------------------------
(* C3 *)

\* C3: a line that decodes but whose status_code is missing or outside
\* {A, N, R} is never the origin of a record, and has exactly one error
\* entry, whose line_number is the line's 1-based position in the file
\* (blank lines counted); the returned lists show the same.
C3_BadStatusRejected ==
    \A i \in 1..f_data :
        BadStatus(i) =>
            /\ i \notin Range(record_lines)
            /\ Cardinality(EntriesAt(processing_errors, i)) = 1
            /\ \A j \in EntriesAt(processing_errors, i) :
                   processing_errors[j].raw_line = rstrip(data_lines[i])
            /\ pc = "return_121" =>
                   /\ Len(result.records) = Len(record_lines)
                   /\ Cardinality(EntriesAt(result.errors, i)) = 1

\* A run returned with a bad-status line behind a blank line, and with a
\* line whose status_code is missing.
C3_Witness ==
    /\ pc = "return_121"
    /\ \E i \in 2..f_data :
           /\ Blank(data_lines[1])
           /\ BadStatus(i)
           /\ EntriesAt(result.errors, i) # {}
    /\ \E i \in 1..f_data :
           /\ BadStatus(i)
           /\ ~contains(Decoded(i).rec, "status_code")
           /\ EntriesAt(result.errors, i) # {}

-----------------------------------------------------------------------------
(* C4 *)

\* A step that reads a blank line counts it and changes nothing else.
SkipsBlank ==
    (ReadsLine /\ Blank(data_lines[f_data'])) =>
        /\ line_count' = line_count + 1
        /\ processed_records' = processed_records
        /\ processing_errors' = processing_errors
        /\ parse_calls' = parse_calls
        /\ pc' = "loop"

\* The counter is the position in the file, the decoder was called for
\* the non-blank lines only, each with its position, and every entry
\* carries the position of its line.
CountsEveryLine ==
    /\ line_count = f_data
    /\ Range(parse_calls) = {i \in 1..f_data : ~Blank(data_lines[i])}
    /\ ErrorLines(processing_errors) = {i \in 1..f_data : Fails(i)}

\* C4: a line that is empty after trimming increments the line counter,
\* leaves records and errors unchanged and is never decoded, so the
\* line_number of a later line is its position in the file, blank lines
\* included.
C4_BlankLines == [][SkipsBlank]_vars /\ []CountsEveryLine

\* A whitespace-only line was skipped and a line after it has an entry.
C4_Witness ==
    \E i, j \in 1..f_data :
        /\ i < j
        /\ data_lines[i] = BlankSpaces
        /\ j \in ErrorLines(processing_errors)
        /\ i \notin Range(parse_calls)

-----------------------------------------------------------------------------
(* C5 *)

\* The record at position j of the list is what the rules make of the
\* line record_lines[j].
RecordsFromLines ==
    /\ Len(processed_records) = Len(record_lines)
    /\ \A j \in DOMAIN record_lines :
           /\ record_lines[j] \in 1..f_data
           /\ Decoded(record_lines[j]).exc = "none"
           /\ processed_records[j] = ApplyRules(Decoded(record_lines[j]).rec).rec

\* C5: at every point of the run and in the result, the line numbers of
\* the error list are strictly increasing, the records are in the order of
\* their source lines, and no line is the origin of both a record and an
\* error.
C5_Ordering ==
    /\ StrictlyIncreasing(LineNumbers(processing_errors))
    /\ StrictlyIncreasing(record_lines)
    /\ RecordsFromLines
    /\ Range(record_lines) \cap ErrorLines(processing_errors) = {}
    /\ pc = "return_121" =>
           /\ result.records = processed_records
           /\ StrictlyIncreasing(LineNumbers(result.errors))
           /\ Range(record_lines) \cap ErrorLines(result.errors) = {}

\* Records and errors interleave: record, error, record.
C5_Witness ==
    /\ pc = "return_121"
    /\ Len(result.records) = 2
    /\ record_lines = <<1, 3>>
    /\ LineNumbers(result.errors) = <<2>>

-----------------------------------------------------------------------------
(* C6 *)

\* None and a one-element list holding a plain string.
FatalShape(r) ==
    /\ r.returned
    /\ r.records_is_None
    /\ r.records = <<>>
    /\ Len(r.errors) = 1
    /\ r.errors[1].type = "str"

FatalResults ==
    /\ pc = "return_43" =>
           /\ FatalShape(result)
           /\ f_data = 0 /\ line_count = 0 /\ parse_calls = <<>>
           /\ processed_records = <<>> /\ processing_errors = <<>>
    /\ pc \in {"return_102", "return_105"} => FatalShape(result)
    /\ pc = "return_102" => f_data = 0 /\ parse_calls = <<>>
    /\ pc = "return_121" => result.returned /\ ~result.records_is_None
    /\ pc \in Returns \ {"return_121"} => output_file = "absent"
    /\ pc \notin Returns => ~result.returned

\* Nothing happens after a return.
StopsAtReturn == pc \in Returns => UNCHANGED vars

\* C6: a fatal error stops the run and returns no records: a layout that
\* fails to load returns None and one error before any data line is read;
\* a data source that cannot be opened, or a read that fails part-way,
\* returns None and one error even after lines were processed; a result
\* with records is never None, so the two kinds of result differ.
C6_FatalErrors == []FatalResults /\ [][StopsAtReturn]_vars

\* A read failed after a record and a per-line error had been collected.
C6_Witness ==
    /\ pc = "return_105"
    /\ processed_records # <<>>
    /\ processing_errors # <<>>
    /\ f_data < Len(data_lines)

-----------------------------------------------------------------------------
(* C7 *)

\* Every element is a per-line entry of a failing line read so far, whose
\* raw_line is the line's text less its trailing newline, and every failing
\* line has exactly one.
EntryPerFailingLine(errors) ==
    /\ \A j \in DOMAIN errors :
           /\ errors[j].type = "dict"
           /\ errors[j].line_number \in 1..f_data
           /\ Fails(errors[j].line_number)
           /\ errors[j].raw_line = StripNewline(data_lines[errors[j].line_number])
    /\ \A i \in 1..f_data :
           Fails(i) => Cardinality(EntriesAt(errors, i)) = 1

\* C7: each failing line contributes exactly one entry with line_number,
\* error and raw_line, raw_line being the original text with only the
\* trailing newline stripped, and every element of the error list, during
\* the run and as returned, has this shape.
C7_ErrorEntryShape ==
    /\ EntryPerFailingLine(processing_errors)
    /\ pc = "return_121" => EntryPerFailingLine(result.errors)

\* What the code keeps of C7: one entry per failing line, with the line's
\* number and the text stripped of all trailing whitespace; a string
\* entry comes only from the output step.
EntryPerFailingLineAsCoded ==
    /\ \A j \in DOMAIN processing_errors :
           LET e == processing_errors[j]
           IN  IF e.type = "dict"
               THEN /\ e.line_number \in 1..f_data
                    /\ Fails(e.line_number)
                    /\ e.raw_line = rstrip(data_lines[e.line_number])
               ELSE pc = "return_121" /\ j = Len(processing_errors)
    /\ \A i \in 1..f_data :
           Fails(i) => Cardinality(EntriesAt(processing_errors, i)) = 1

\* An entry of the list is never changed or removed by a later step.
EntriesKept ==
    /\ Len(processing_errors') >= Len(processing_errors)
    /\ SubSeq(processing_errors', 1, Len(processing_errors)) = processing_errors

EntriesNeverChange == [][EntriesKept]_vars

-----------------------------------------------------------------------------
(* C9 *)

\* The keys of a record, in order.
Keys(rec) == [i \in DOMAIN rec |-> rec[i].k]

\* status_code is allowed and is_active says whether it is 'A'.
ActiveDerived(rec) ==
    /\ get(rec, "status_code") \in AllowedStatus
    /\ contains(rec, "is_active")
    /\ get(rec, "is_active") = Bool(get(rec, "status_code") = Str(<<"A">>))

\* A line rejected by the status check leaves the decoded record as the
\* decoder returned it and logs no warning.
RejectionAbortsRules ==
    (f_data >= 1 /\ BadStatus(f_data)) =>
        /\ parsed_record = Decoded(f_data).rec
        /\ f_data \notin Range(warnings)

\* C9: every record has an allowed status_code and an is_active equal to
\* (status_code = 'A') appended after all the schema fields, and a record
\* rejected by the status check has seen none of the later rules.
C9_RuleOrder ==
    /\ \A j \in DOMAIN processed_records :
           LET rec == processed_records[j]
               schema == Keys(Decoded(record_lines[j]).rec)
           IN  /\ ActiveDerived(rec)
               /\ Keys(rec) = Append(schema, "is_active")
    /\ RejectionAbortsRules
    /\ pc = "return_121" => result.records = processed_records

\* What the code keeps of C9: is_active goes last unless the decoded
\* record already has that key, which then keeps its place.
RuleOrderAsCoded ==
    /\ \A j \in DOMAIN processed_records :
           LET rec == processed_records[j]
               schema == Keys(Decoded(record_lines[j]).rec)
           IN  /\ ActiveDerived(rec)
               /\ Keys(rec) = IF contains(Decoded(record_lines[j]).rec, "is_active")
                               THEN schema
                               ELSE Append(schema, "is_active")
    /\ RejectionAbortsRules
    /\ pc = "return_121" => result.records = processed_records

-----------------------------------------------------------------------------
(* C8 *)

\* C8: a decoded record with an allowed status_code and a balance below
\* -500.00 is appended to the records, with a warning and no error entry;
\* a record without account_balance is appended with neither; a warned
\* line is always a record.
C8_BalanceWarning ==
    /\ \A i \in 1..f_data :
           (/\ ~Blank(data_lines[i])
            /\ Decoded(i).exc = "none"
            /\ get(Decoded(i).rec, "status_code") \in AllowedStatus) =>
               LET balance == get(Decoded(i).rec, "account_balance")
               IN  /\ (balance.t = "Decimal" /\ balance.n < BalanceThreshold) =>
                          /\ i \in Range(record_lines)
                          /\ i \in Range(warnings)
                          /\ EntriesAt(processing_errors, i) = {}
                   /\ ~contains(Decoded(i).rec, "account_balance") =>
                          /\ i \in Range(record_lines)
                          /\ i \notin Range(warnings)
                          /\ EntriesAt(processing_errors, i) = {}
    /\ Range(warnings) \subseteq Range(record_lines)
    /\ Len(processed_records) = Len(record_lines)
    /\ pc = "return_121" => result.records = processed_records

\* A run returned a record whose balance drew the warning.
C8_Witness ==
    /\ pc = "return_121"
    /\ \E j \in DOMAIN result.records :
           /\ record_lines[j] \in Range(warnings)
           /\ get(result.records[j], "account_balance") = Decimal(-60000)

-----------------------------------------------------------------------------
(* C10 *)

\* The step that ends the run after the loop.
OutputStep ==
    pc = "output" =>
        /\ pc' = "return_121"
        /\ ~result'.records_is_None
        /\ result'.records = processed_records
        /\ processed_records' = processed_records
        /\ IF Truthy(output_json_path) /\ output_file' # "written"
           THEN /\ Len(result'.errors) = Len(processing_errors) + 1
                /\ SubSeq(result'.errors, 1, Len(processing_errors)) = processing_errors
                /\ result'.errors[Len(result'.errors)].type = "str"
           ELSE result'.errors = processing_errors

\* C10: a failure to write the output JSON is not fatal: the records are
\* returned unchanged and in order, the per-line entries are kept, and the
\* error list gains exactly one entry that belongs to no input line; with
\* no output path, or a write that succeeds, both lists are returned as the
\* loop left them.
C10_OutputFailure == [][OutputStep]_vars

\* The write failed after the loop had collected a record and an error.
C10_Witness ==
    /\ pc = "return_121"
    /\ Truthy(output_json_path)
    /\ output_file = "absent"
    /\ Len(result.records) >= 1
    /\ Len(result.errors) >= 2
    /\ result.errors[Len(result.errors)].type = "str"
    /\ result.errors[1].type = "dict"

====
